---- MODULE Spec2Model ----
\* Model of the Solana Claim API (src/main.py, src/schemas.py): the three
\* collections of the document store, the startup seeder, the two read
\* endpoints and the create_claim workflow run by concurrent request handlers.
\*
\* Amounts of SOL are integers counting hundredths of a SOL (1.25 SOL = 125).
\* The amounts that reach an addition are whole SOL, where IEEE double
\* addition is exact, so the integer sum is the float sum.
\* Strings the code slices or concatenates are sequences of one-character
\* strings; the other strings are TLA+ strings.
\* Of the time stamps only Metric.updated_at is kept: it is the only one an
\* operation reads to decide something (the sort of get_metrics). The
\* created_at of a Claim and the timestamp of an Activity are always present
\* and only copied, and are left out of the records.
\* A process reads the time for updated_at in its own step, before the write
\* that carries it reaches the store: the store may apply writes in another
\* order than their time stamps. Successive readings are distinct instants.
\* Instants count for their order only: the latest instant read, when the
\* write it was read for fails and drops it, is given out again.
EXTENDS Integers, Sequences, FiniteSets, TLC

VARIABLES
    dbUp,       \* the process-wide store handle `db` is not None
    metric,     \* collection "metric", in natural (insertion) order
    activity,   \* collection "activity", in natural order
    claim,      \* collection "claim", in natural order
    clock,      \* the instant the next datetime.now()/utcnow() for a Metric returns
    pc,         \* per request handler: the step of create_claim it is at
    req,        \* per request handler: payload and claim id of its running call
    seedPc,     \* the step of seed_data the startup routine is at
    seedDoc,    \* the Metric object seed_data has built and not yet inserted
    sample,     \* seed_data's list of sample Activity objects still to insert
    out,        \* the response the last step sent to a client, if it sent one
    seededIds   \* history: identifiers of the records seed_data inserted

vars == <<dbUp, metric, activity, claim, clock, pc, req, seedPc, seedDoc,
          sample, out, seededIds>>

----------------------------------------------------------------------------
\* Bounds of the model

\* The number of Claim records the store takes: create_claim calls that get
\* past their first step. Calls that fail there and seeder runs are unbounded.
MaxClaims == 2

\* The request handlers that may run create_claim at the same time
\* (FastAPI runs `def` endpoints on a thread pool). The threads are
\* interchangeable: a request goes to the first idle one.
Handlers == {1, 2}

\* Request values
W_long == <<"4", "h", "K", "z", "r", "X", "k", "Q", "a", "b", "c">>
W_short == <<"a", "b", "c">>
Limits == {2, 12}

\* The request bodies POST /api/claims is called with: CreateClaimRequest
\* constrains the types only, so a negative amount and a fee above 100 arrive.
Payloads ==
    { [wallet |-> W_long, accounts |-> <<"acc1", "acc2">>,
       total_amount_sol |-> 100, fee_percent |-> 1],
      [wallet |-> W_short, accounts |-> <<>>,
       total_amount_sol |-> 200, fee_percent |-> 0],
      [wallet |-> W_long, accounts |-> <<"acc1">>,
       total_amount_sol |-> -100, fee_percent |-> 1],
      [wallet |-> W_long, accounts |-> <<"acc1">>,
       total_amount_sol |-> 100, fee_percent |-> 101] }

Null == "null"
NoId == <<>>

Min(a, b) == IF a < b THEN a ELSE b
Max(a, b) == IF a > b THEN a ELSE b

----------------------------------------------------------------------------
\* Python string slicing: s[:k] and s[-k:] never raise, they clip.

SlicePrefix(s, k) == SubSeq(s, 1, Min(k, Len(s)))
SliceSuffix(s, k) == SubSeq(s, Max(1, Len(s) - k + 1), Len(s))

Dots == <<".", ".", ".">>

\* Mutant: the tail sliced as wallet[-2:]
Redact_last2(w) == SlicePrefix(w, 2) \o Dots \o SliceSuffix(w, 2)

\* payload.wallet[:2]+"..."+payload.wallet[-3:]
Redact(w) == SlicePrefix(w, 2) \o Dots \o SliceSuffix(w, 3)

\* f"https://solscan.io/tx/{sig}"
SolscanUrl(sig) == <<"https://solscan.io/tx/", sig>>

\* str(inserted_id): the identifier the store generates for the n-th record of
\* a collection, a non-empty string unique in the store
IdStr(coll_name, n) == <<coll_name, n>>

----------------------------------------------------------------------------
\* Field constraints of the record types (pydantic Field(ge=..., le=...)).

ActivityValid(amount_sol) == amount_sol >= 0

MetricValid(sol, accounts) == sol >= 0 /\ accounts >= 0

\* Mutant: the Claim model without `ge=0` on total_amount_sol
ClaimValid_noAmountBound(p) ==
    /\ p.fee_percent >= 0
    /\ p.fee_percent <= 100

ClaimValid(p) ==
    /\ p.total_amount_sol >= 0
    /\ p.fee_percent >= 0
    /\ p.fee_percent <= 100

----------------------------------------------------------------------------
\* Document store operations

\* create_document(collection_name, data): appends the record's fields under a
\* freshly generated identifier.
create_document(coll_name, coll, doc) ==
    Append(coll, [id |-> IdStr(coll_name, Len(coll) + 1)] @@ doc)

\* Mutant: the totals written with $set instead of $inc
IncDoc_set(doc, amount, count, now) ==
    [doc EXCEPT !.total_sol_recovered = amount,
                !.total_accounts_claimed = count,
                !.updated_at = now]

\* $inc / $set applied to a matched Metric document
IncDoc(doc, amount, count, now) ==
    [doc EXCEPT !.total_sol_recovered = @ + amount,
                !.total_accounts_claimed = @ + count,
                !.updated_at = now]

\* Mutant: insert_one of the deltas instead of an upsert on the one record
update_one_insert(coll, amount, count, now) ==
    Append(coll, [id |-> IdStr("metric", Len(coll) + 1),
                  total_sol_recovered |-> amount,
                  total_accounts_claimed |-> count, updated_at |-> now])

\* db["metric"].update_one({}, {"$inc": ..., "$set": ...}, upsert=True):
\* one atomic store operation. The empty filter matches the first document in
\* natural order; with no document the upsert inserts the deltas as values.
update_one_upsert(coll, amount, count, now) ==
    IF coll = <<>>
    THEN <<[id |-> IdStr("metric", 1), total_sol_recovered |-> amount,
            total_accounts_claimed |-> count, updated_at |-> now]>>
    ELSE <<IncDoc(Head(coll), amount, count, now)>> \o Tail(coll)

\* Mutant: the emptiness guard dropped
IsEmpty_unguarded(coll) == TRUE

\* count_documents({}) == 0
IsEmpty(coll) == Len(coll) = 0

\* find().sort("updated_at", -1).limit(1): a cursor over at most one document
LatestMetric(coll) ==
    IF coll = <<>> THEN <<>>
    ELSE LET i == CHOOSE i \in 1..Len(coll) :
                    \A j \in 1..Len(coll) : coll[j].updated_at <= coll[i].updated_at
         IN <<coll[i]>>

\* get_documents(collection_name, filter, limit): up to `limit` records in
\* natural order
get_documents(coll, limit) == SubSeq(coll, 1, Min(limit, Len(coll)))

\* The clock after the instant t, read for a write that failed, is dropped
Dropped(t) == IF t = clock - 1 THEN clock - 1 ELSE clock

----------------------------------------------------------------------------
\* Responses

NoReq == [cid |-> NoId]
NoOut == [op |-> "none", status |-> 0]

\* CreateClaimResponse(ok=True, claim_id=cid); `be` records which best-effort
\* step of the call failed, if any (history, not part of the body)
OkResponse(h, cid, be) ==
    [op |-> "create_claim", h |-> h, status |-> 200, ok |-> TRUE,
     claim_id |-> cid, be |-> be]

\* Mutant: the first step wrapped in the try block too, its failure swallowed
ErrorResponse_swallowed(h, cause) ==
    [op |-> "create_claim", h |-> h, status |-> 200, ok |-> TRUE,
     claim_id |-> NoId, be |-> cause]

\* an exception that leaves create_claim: 500 Internal Server Error; `cause`
\* records what raised it (history, not part of the body)
ErrorResponse(h, cause) ==
    [op |-> "create_claim", h |-> h, status |-> 500, ok |-> FALSE,
     claim_id |-> NoId, be |-> cause]

\* Mutant: no try/except around the best-effort steps
CreateClaimResult_raise(h, cid, be) ==
    IF be = "ok" THEN OkResponse(h, cid, be)
    ELSE [op |-> "create_claim", h |-> h, status |-> 500, ok |-> FALSE,
          claim_id |-> NoId, be |-> be]

\* `except Exception: pass` followed by the return: whatever happened in the
\* try block (be = "ok", "metric_store", "activity_build" or
\* "activity_store"), the call returns ok
CreateClaimResult(h, cid, be) == OkResponse(h, cid, be)

\* Activity(wallet=payload.wallet[:2]+"..."+payload.wallet[-3:],
\*          tx_signature="pending", amount_sol=payload.total_amount_sol):
\* the record built, or no record when building it raises
BuildActivity(p) ==
    IF ActivityValid(p.total_amount_sol)
    THEN <<[wallet |-> Redact(p.wallet), tx_signature |-> "pending",
            amount_sol |-> p.total_amount_sol]>>
    ELSE <<>>

\* MetricsResponse(...) built from the fetched document
MetricsResponse(item) ==
    [op |-> "get_metrics", status |-> 200,
     total_sol_recovered |-> item.total_sol_recovered,
     total_accounts_claimed |-> item.total_accounts_claimed,
     updated_at |-> item.updated_at]

\* ActivityResponse(...) built from one fetched document
ActivityResponse(it) ==
    [wallet |-> it.wallet, tx_signature |-> it.tx_signature,
     amount_sol |-> it.amount_sol,
     solscan_url |-> SolscanUrl(it.tx_signature)]

----------------------------------------------------------------------------
Init ==
    /\ dbUp \in BOOLEAN
    /\ metric = <<>>
    /\ activity = <<>>
    /\ claim = <<>>
    /\ clock = 1
    /\ pc = [h \in Handlers |-> "idle"]
    /\ req = [h \in Handlers |-> NoReq]
    /\ seedPc = "off"
    /\ seedDoc = <<>>
    /\ sample = <<>>
    /\ out = NoOut
    /\ seededIds = {}

----------------------------------------------------------------------------
\* create_claim (POST /api/claims)

\* Step 1: build the Claim record and persist it with create_document. An
\* exception here (validation, absent store, failed insert) leaves the handler.
InsertClaim(h, p, storeOk) ==
    /\ pc[h] = "idle"
    /\ \A g \in Handlers : g < h => pc[g] # "idle"
    /\ Len(claim) < MaxClaims
    /\ UNCHANGED <<dbUp, metric, activity, clock, seedPc, seedDoc, sample, seededIds>>
    /\ IF ClaimValid(p) /\ dbUp /\ storeOk
       THEN /\ claim' = create_document("claim", claim,
                            [wallet |-> p.wallet, accounts |-> p.accounts,
                             total_amount_sol |-> p.total_amount_sol,
                             fee_percent |-> p.fee_percent,
                             tx_signature |-> Null])
            /\ req' = [req EXCEPT ![h] = [cid |-> IdStr("claim", Len(claim) + 1),
                                          payload |-> p]]
            /\ pc' = [pc EXCEPT ![h] = "metric"]
            /\ out' = NoOut
       ELSE /\ out' = ErrorResponse(h, IF ~ClaimValid(p) THEN "claim_build"
                                       ELSE "claim_store")
            /\ UNCHANGED <<claim, pc, req>>

\* Step 2a: the arguments of update_one are evaluated in the handler, among
\* them datetime.now(timezone.utc).
StampMetric(h) ==
    /\ pc[h] = "metric"
    /\ req' = [req EXCEPT ![h] = [cid |-> req[h].cid, payload |-> req[h].payload,
                                  now |-> clock]]
    /\ clock' = clock + 1
    /\ pc' = [pc EXCEPT ![h] = "metric_write"]
    /\ out' = NoOut
    /\ UNCHANGED <<dbUp, metric, activity, claim, seedPc, seedDoc, sample, seededIds>>

\* Step 2b: the store applies the Metric upsert-with-increment. An exception
\* is caught and the handler returns ok without appending the Activity record.
UpdateMetric(h, storeOk) ==
    /\ pc[h] = "metric_write"
    /\ UNCHANGED <<dbUp, activity, claim, seedPc, seedDoc, sample, seededIds>>
    /\ LET p == req[h].payload IN
       IF storeOk
       THEN /\ metric' = update_one_upsert(metric, p.total_amount_sol,
                                            Len(p.accounts), req[h].now)
            /\ req' = [req EXCEPT ![h] = [cid |-> req[h].cid, payload |-> p]]
            /\ pc' = [pc EXCEPT ![h] = "activity"]
            /\ out' = NoOut
            /\ UNCHANGED clock
       ELSE /\ out' = CreateClaimResult(h, req[h].cid, "metric_store")
            /\ req' = [req EXCEPT ![h] = NoReq]
            /\ pc' = [pc EXCEPT ![h] = "idle"]
            /\ clock' = Dropped(req[h].now)
            /\ UNCHANGED metric

\* Step 3: build the Activity record with the redacted wallet and append it;
\* an exception is caught. Either way the handler returns ok.
InsertActivity(h, storeOk) ==
    /\ pc[h] = "activity"
    /\ UNCHANGED <<dbUp, metric, claim, clock, seedPc, seedDoc, sample, seededIds>>
    /\ LET built == BuildActivity(req[h].payload)
           be == IF built = <<>> THEN "activity_build"
                 ELSE IF ~storeOk THEN "activity_store"
                 ELSE "ok"
       IN /\ activity' = IF be = "ok"
                         THEN create_document("activity", activity, Head(built))
                         ELSE activity
          /\ out' = CreateClaimResult(h, req[h].cid, be)
          /\ req' = [req EXCEPT ![h] = NoReq]
          /\ pc' = [pc EXCEPT ![h] = "idle"]

----------------------------------------------------------------------------
\* seed_data (startup). Every exception inside it is caught and ends the run.

\* The three sample Activity objects
SampleActivities ==
    << [wallet |-> <<"4", "h", ".", ".", ".", "X", "k", "Q">>,
        tx_signature |-> "5abc...123", amount_sol |-> 125],
       [wallet |-> <<"B", "9", ".", ".", ".", "P", "q", "L">>,
        tx_signature |-> "8def...456", amount_sol |-> 78],
       [wallet |-> <<"F", "s", ".", ".", ".", "9", "L", "m">>,
        tx_signature |-> "3xyz...789", amount_sol |-> 203] >>

\* `if db is None: return`, then the emptiness check of the Metric collection
SeedStart(storeOk) ==
    /\ seedPc = "off"
    /\ seedPc' = IF ~dbUp \/ ~storeOk THEN "off"
                 ELSE IF IsEmpty(metric) THEN "metric_build"
                 ELSE "activity_check"
    /\ out' = NoOut
    /\ UNCHANGED <<dbUp, metric, activity, claim, clock, pc, req, seedDoc, sample, seededIds>>

\* Metric(total_sol_recovered=0.0, total_accounts_claimed=0): the object is
\* built, updated_at taking the current time, before create_document is called
SeedBuildMetric ==
    /\ seedPc = "metric_build"
    /\ IF MetricValid(0, 0)
       THEN /\ seedDoc' = <<[total_sol_recovered |-> 0, total_accounts_claimed |-> 0,
                             updated_at |-> clock]>>
            /\ clock' = clock + 1
            /\ seedPc' = "metric_insert"
       ELSE /\ seedPc' = "off"
            /\ UNCHANGED <<seedDoc, clock>>
    /\ out' = NoOut
    /\ UNCHANGED <<dbUp, metric, activity, claim, pc, req, sample, seededIds>>

\* create_document("metric", <the Metric object>) reaches the store
SeedInsertMetric(storeOk) ==
    /\ seedPc = "metric_insert"
    /\ IF storeOk
       THEN /\ metric' = create_document("metric", metric, Head(seedDoc))
            /\ seededIds' = seededIds \cup {IdStr("metric", Len(metric) + 1)}
            /\ seedPc' = "activity_check"
            /\ UNCHANGED clock
       ELSE /\ seedPc' = "off"
            /\ clock' = Dropped(Head(seedDoc).updated_at)
            /\ UNCHANGED <<metric, seededIds>>
    /\ seedDoc' = <<>>
    /\ out' = NoOut
    /\ UNCHANGED <<dbUp, activity, claim, pc, req, sample>>

\* The emptiness check of the Activity collection and the `sample` list
SeedCheckActivity(storeOk) ==
    /\ seedPc = "activity_check"
    /\ IF storeOk /\ IsEmpty(activity)
       THEN /\ sample' = SampleActivities
            /\ seedPc' = "activity_insert"
       ELSE /\ seedPc' = "off"
            /\ UNCHANGED sample
    /\ out' = NoOut
    /\ UNCHANGED <<dbUp, metric, activity, claim, clock, pc, req, seedDoc, seededIds>>

\* One iteration of `for a in sample: create_document("activity", a)`
SeedInsertActivity(storeOk) ==
    /\ seedPc = "activity_insert"
    /\ IF ActivityValid(Head(sample).amount_sol) /\ storeOk
       THEN /\ activity' = create_document("activity", activity, Head(sample))
            /\ seededIds' = seededIds \cup {IdStr("activity", Len(activity) + 1)}
            /\ sample' = Tail(sample)
            /\ seedPc' = IF Tail(sample) = <<>> THEN "off" ELSE "activity_insert"
       ELSE /\ sample' = <<>>
            /\ seedPc' = "off"
            /\ UNCHANGED <<activity, seededIds>>
    /\ out' = NoOut
    /\ UNCHANGED <<dbUp, metric, claim, clock, pc, req, seedDoc>>

----------------------------------------------------------------------------
\* Read endpoints. Each is one store query; an exception leaves the handler
\* (500). With db = None, db["metric"] raises TypeError.

\* Mutant: no `if not item: raise HTTPException(404)`, the defaults returned
get_metrics_default(storeOk) ==
    IF ~dbUp \/ ~storeOk THEN [op |-> "get_metrics", status |-> 500]
    ELSE LET docs == LatestMetric(metric) IN
         IF docs = <<>>
         THEN [op |-> "get_metrics", status |-> 200, total_sol_recovered |-> 0,
               total_accounts_claimed |-> 0, updated_at |-> clock]
         ELSE MetricsResponse(Head(docs))

get_metrics(storeOk) ==
    IF ~dbUp \/ ~storeOk THEN [op |-> "get_metrics", status |-> 500]
    ELSE LET docs == LatestMetric(metric) IN
         IF docs = <<>> THEN [op |-> "get_metrics", status |-> 404]
         ELSE MetricsResponse(Head(docs))

get_activity(limit, storeOk) ==
    IF ~dbUp \/ ~storeOk THEN [op |-> "get_activity", status |-> 500]
    ELSE LET items == get_documents(activity, limit) IN
         [op |-> "get_activity", status |-> 200, limit |-> limit,
          body |-> [i \in 1..Len(items) |-> ActivityResponse(items[i])]]

GetMetrics(storeOk) ==
    /\ out' = get_metrics(storeOk)
    /\ UNCHANGED <<dbUp, metric, activity, claim, clock, pc, req, seedPc, seedDoc, sample, seededIds>>

GetActivity(limit, storeOk) ==
    /\ out' = get_activity(limit, storeOk)
    /\ UNCHANGED <<dbUp, metric, activity, claim, clock, pc, req, seedPc, seedDoc, sample, seededIds>>

----------------------------------------------------------------------------
StepInsertClaim == \E h \in Handlers, p \in Payloads, ok \in BOOLEAN : InsertClaim(h, p, ok)
StepStampMetric == \E h \in Handlers : StampMetric(h)
StepUpdateMetric == \E h \in Handlers, ok \in BOOLEAN : UpdateMetric(h, ok)
StepInsertActivity == \E h \in Handlers, ok \in BOOLEAN : InsertActivity(h, ok)
StepSeedStart == \E ok \in BOOLEAN : SeedStart(ok)
StepSeedBuildMetric == SeedBuildMetric
StepSeedInsertMetric == \E ok \in BOOLEAN : SeedInsertMetric(ok)
StepSeedCheckActivity == \E ok \in BOOLEAN : SeedCheckActivity(ok)
StepSeedInsertActivity == \E ok \in BOOLEAN : SeedInsertActivity(ok)
StepGetMetrics == \E ok \in BOOLEAN : GetMetrics(ok)
StepGetActivity == \E limit \in Limits, ok \in BOOLEAN : GetActivity(limit, ok)

Next ==
    \/ StepInsertClaim
    \/ StepStampMetric
    \/ StepUpdateMetric
    \/ StepInsertActivity
    \/ StepSeedStart
    \/ StepSeedBuildMetric
    \/ StepSeedInsertMetric
    \/ StepSeedCheckActivity
    \/ StepSeedInsertActivity
    \/ StepGetMetrics
    \/ StepGetActivity

Spec == Init /\ [][Next]_vars

\* The operations that write to the store: the reads leave everything but the
\* response `out` as it is.
NextWrites ==
    \/ StepInsertClaim
    \/ StepStampMetric
    \/ StepUpdateMetric
    \/ StepInsertActivity
    \/ StepSeedStart
    \/ StepSeedBuildMetric
    \/ StepSeedInsertMetric
    \/ StepSeedCheckActivity
    \/ StepSeedInsertActivity

SpecWrites == Init /\ [][NextWrites]_vars

----------------------------------------------------------------------------
\* Properties

AllIdle == \A h \in Handlers : pc[h] = "idle"

RECURSIVE SumAmounts(_)
SumAmounts(c) == IF c = <<>> THEN 0 ELSE Head(c).total_amount_sol + SumAmounts(Tail(c))

RECURSIVE SumAccounts(_)
SumAccounts(c) == IF c = <<>> THEN 0 ELSE Len(Head(c).accounts) + SumAccounts(Tail(c))

\* The Activity records appended by create_claim calls
PendingActivities == {i \in 1..Len(activity) : activity[i].tx_signature = "pending"}

\* Every create_claim call that persisted its Claim has returned, and none of
\* their best-effort steps failed: each appended its Activity record, which a
\* call does only after its Metric update went through.
NoBestEffortFailure == AllIdle /\ Cardinality(PendingActivities) = Len(claim)

SeededMetrics == {i \in 1..Len(metric) : metric[i].id \in seededIds}
SeededActivities == {i \in 1..Len(activity) : activity[i].id \in seededIds}

\* The Claim record of a running call is in storage with the supplied fields
ClaimStored(coll, r) ==
    \E i \in 1..Len(coll) :
        /\ coll[i].id = r.cid
        /\ coll[i].wallet = r.payload.wallet
        /\ coll[i].accounts = r.payload.accounts
        /\ coll[i].total_amount_sol = r.payload.total_amount_sol
        /\ coll[i].fee_percent = r.payload.fee_percent
        /\ coll[i].tx_signature = Null

\* C1: after N create_claim calls that returned ok with no best-effort step
\* failing, the Metric record the upsert maintains (the first in natural
\* order) holds the sum of the calls' amounts and the sum of the lengths of
\* their account lists, on top of what it held before them (zero totals).
C1_TotalsAreSums ==
    (NoBestEffortFailure /\ claim # <<>>) =>
        /\ metric # <<>>
        /\ Head(metric).total_sol_recovered = SumAmounts(claim)
        /\ Head(metric).total_accounts_claimed = SumAccounts(claim)

C1_Witness ==
    /\ NoBestEffortFailure
    /\ Len(claim) = 2
    /\ claim[1].total_amount_sol = 200
    /\ claim[2].total_amount_sol = 100
    /\ Head(metric).total_sol_recovered = 300
    /\ Head(metric).total_accounts_claimed = 2

\* C2: two create_claim calls with amounts 1.0 and 2.0 against a Metric record
\* seeded with zero totals leave get_metrics reporting total_sol_recovered =
\* 3.0 once both have returned with no best-effort failure, whatever the
\* interleaving of their steps.
C2_ConcurrentTotal ==
    ( /\ NoBestEffortFailure
      /\ Len(claim) = 2
      /\ {claim[1].total_amount_sol, claim[2].total_amount_sol} = {100, 200}
      /\ metric # <<>>
      /\ Head(metric).id \in seededIds )
    => /\ get_metrics(TRUE).status = 200
       /\ get_metrics(TRUE).total_sol_recovered = 300

\* The two calls overlapped: the call that persisted its Claim first (2.0)
\* appended its Activity record last.
C2_Witness ==
    /\ NoBestEffortFailure
    /\ Len(claim) = 2
    /\ claim[1].total_amount_sol = 200
    /\ claim[2].total_amount_sol = 100
    /\ Len(metric) = 1
    /\ Head(metric).id \in seededIds
    /\ \E i, j \in PendingActivities :
          i < j /\ activity[i].amount_sol = 100 /\ activity[j].amount_sol = 200
    /\ get_metrics(TRUE).status = 200
    /\ get_metrics(TRUE).total_sol_recovered = 300

\* C3: once step 1 of create_claim has persisted the Claim record, the record
\* is in storage with the supplied fields and tx_signature = null, and the
\* call ends by returning ok = true with that record's non-empty identifier,
\* also when the Metric update or the Activity append failed.
C3_OkOncePersisted ==
    [][\A h \in Handlers :
        /\ pc'[h] # "idle" => ClaimStored(claim', req'[h])
        /\ (pc[h] # "idle" /\ pc'[h] = "idle") =>
              /\ out'.op = "create_claim"
              /\ out'.h = h
              /\ out'.status = 200
              /\ out'.ok = TRUE
              /\ out'.claim_id = req[h].cid
              /\ Len(out'.claim_id) > 0
              /\ ClaimStored(claim', req[h])]_vars

C3_Witness ==
    /\ out.op = "create_claim"
    /\ out.ok = TRUE
    /\ out.be \in {"metric_store", "activity_store"}
    /\ \E i \in 1..Len(claim) :
          claim[i].id = out.claim_id /\ claim[i].tx_signature = Null

\* C4: a create_claim call that ends in its first step (the Claim record was
\* not built or not persisted) ends in a 500 failure response, not ok = true,
\* and leaves the Claim, Metric and Activity collections as they were.
C4_FailureSurfaced ==
    [][\A h \in Handlers :
        (pc[h] = "idle" /\ out'.op = "create_claim" /\ out'.h = h) =>
            /\ out'.status = 500
            /\ out'.ok = FALSE
            /\ pc'[h] = "idle"
            /\ claim' = claim
            /\ metric' = metric
            /\ activity' = activity]_vars

C4_Witness ==
    /\ dbUp
    /\ out.op = "create_claim"
    /\ out.status = 500
    /\ out.be = "claim_store"
    /\ metric # <<>>
    /\ activity # <<>>

\* C5: however often the seeder runs, it has inserted at most 1 Metric record
\* and at most 3 Activity records; with seeder runs alone (no create_claim
\* call got to write) the store holds at most 1 Metric and 3 Activity records.
C5_SeedIdempotent ==
    /\ Cardinality(SeededMetrics) <= 1
    /\ Cardinality(SeededActivities) <= 3
    /\ claim = <<>> => (Len(metric) <= 1 /\ Len(activity) <= 3)

\* A later run at its Activity check, the samples of an earlier run in place
C5_Witness ==
    /\ claim = <<>>
    /\ seedPc = "activity_check"
    /\ Len(metric) = 1
    /\ Cardinality(SeededActivities) = 3

\* C6: with the store reachable and the query answered, get_metrics responds
\* 404 in every state where the Metric collection is empty, and responds with
\* totals 0 and 0 in every state reached by seeding alone.
C6_MetricsRead ==
    dbUp =>
        /\ metric = <<>> => get_metrics(TRUE).status = 404
        /\ (metric # <<>> /\ claim = <<>>) =>
              /\ get_metrics(TRUE).status = 200
              /\ get_metrics(TRUE).total_sol_recovered = 0
              /\ get_metrics(TRUE).total_accounts_claimed = 0

\* A completed seeder run and no claim
C6_Witness ==
    /\ claim = <<>>
    /\ seedPc = "off"
    /\ Len(metric) = 1
    /\ Len(activity) = 3
    /\ get_metrics(TRUE).status = 200
    /\ get_metrics(TRUE).total_sol_recovered = 0
    /\ get_metrics(TRUE).total_accounts_claimed = 0

\* C7: with the store handle absent, get_metrics responds 404, get_activity
\* responds with an empty list, and the seeder writes nothing.
C7_ReadsDegrade ==
    ~dbUp =>
        /\ out.op = "get_metrics" => out.status = 404
        /\ out.op = "get_activity" => (out.status = 200 /\ out.body = <<>>)
        /\ metric = <<>> /\ activity = <<>> /\ seedPc = "off"

\* C8: the totals of every Metric record are >= 0 in every state and no step
\* decreases them, whatever the request values (a negative total_amount_sol
\* included).
C8_TotalsMonotone ==
    [][\A i \in 1..Len(metric') :
        /\ metric'[i].total_sol_recovered >= 0
        /\ metric'[i].total_accounts_claimed >= 0
        /\ i <= Len(metric) =>
              /\ metric'[i].total_sol_recovered >= metric[i].total_sol_recovered
              /\ metric'[i].total_accounts_claimed >= metric[i].total_accounts_claimed]_vars

\* A request with a negative amount has just been turned down, the totals standing
C8_Witness ==
    /\ out.op = "create_claim"
    /\ out.status = 500
    /\ out.be = "claim_build"
    /\ metric # <<>>
    /\ Head(metric).total_sol_recovered = 200

\* C9: step 3 of create_claim never fails in building the Activity record,
\* short wallets included; when the store takes the insert it appends exactly
\* one record, with tx_signature "pending", amount_sol = total_amount_sol and
\* wallet = first 2 characters + "..." + last 3 characters of the wallet
\* ("4hKzrXkQabc" gives "4h...abc").
C9_ActivityAppended ==
    [][\A h \in Handlers :
        (pc[h] = "activity" /\ pc'[h] = "idle") =>
            LET w == req[h].payload.wallet
                n == Len(w)
            IN /\ out'.be \in {"ok", "activity_store"}
               /\ out'.be = "ok" =>
                    /\ Len(activity') = Len(activity) + 1
                    /\ SubSeq(activity', 1, Len(activity)) = activity
                    /\ activity'[Len(activity')].tx_signature = "pending"
                    /\ activity'[Len(activity')].amount_sol = req[h].payload.total_amount_sol
                    /\ n >= 5 => activity'[Len(activity')].wallet =
                                    <<w[1], w[2], ".", ".", ".", w[n - 2], w[n - 1], w[n]>>
                    /\ w = W_long => activity'[Len(activity')].wallet =
                                    <<"4", "h", ".", ".", ".", "a", "b", "c">>
               /\ out'.be = "activity_store" => activity' = activity]_vars

\* The Activity record of a call with a wallet of 3 characters
C9_Witness ==
    /\ out.op = "create_claim"
    /\ out.be = "ok"
    /\ activity # <<>>
    /\ activity[Len(activity)].tx_signature = "pending"
    /\ activity[Len(activity)].wallet = <<"a", "b", ".", ".", ".", "a", "b", "c">>

\* C10: the Metric collection holds at most one record in every state.
C10_SingleMetric == Len(metric) <= 1

====
